---------------------------- MODULE Spec2Model ----------------------------
(***************************************************************************)
(* A model of sqlx-core: the Postgres tagged-field Response decoder        *)
(* (postgres/protocol/response.rs), the SQLite connection life cycle with  *)
(* its blocking-call Worker (sqlite/connection.rs), the error interface of *)
(* PgError (postgres/error.rs) and the value types (postgres/types/mod.rs, *)
(* sqlite/types).                                                          *)
(*                                                                         *)
(* Byte strings are sequences of byte values (0..255); a Rust Option is a  *)
(* sequence of length 0 (None) or 1 (Some); a Rust Result is a record      *)
(* [ok, err, val].                                                         *)
(***************************************************************************)
EXTENDS Integers, Sequences, FiniteSets, TLC

VARIABLES
    \* ---- Response decoder (postgres/protocol/response.rs) ----
    msg,        \* the (tag, value) pairs the input was encoded from
    buf,        \* the bytes handed to Response::read
    response,   \* None before read; Some(result of Response::read) after
    out,        \* the last accessor call on the Response and what it returned
    \* ---- SQLite connection (sqlite/connection.rs) ----
    pc,                 \* where the caller's task is in connect / the connection's life
    attempt,            \* the number of connect calls made; names the handle of the call
    outcome,            \* what the last connect call returned (None: it has not yet)
    handle,             \* SqliteConnection.handle (0: no connection value)
    statement,          \* SqliteConnection.statement: Option of a statement
    statements,         \* SqliteConnection.statements: Vec of statements
    statement_by_query, \* SqliteConnection.statement_by_query
    awaiting,           \* the Worker job whose future the caller holds (0: none)
    lastCall,           \* the last finished call on a Ready connection and its result
    \* ---- Worker (sqlite/worker.rs) ----
    jobs,               \* every job submitted so far, in submission order
    queue,              \* the Worker's inbound queue of job ids
    \* ---- the SQLite engine ----
    openHandles,        \* the handles the engine holds open
    liveStmts,          \* the prepared statements not yet finalized
    inEngine,           \* the execution contexts inside an engine call, with its handle
    \* ---- value types (postgres/types/mod.rs, sqlite/types) ----
    values,             \* the argument buffer of the embedded backend: Vec<SqliteArgumentValue>
    call                \* the last call on a value type: its arguments and what it returned

respVars == <<msg, buf, response, out>>

connVars == <<pc, attempt, outcome, handle, statement, statements,
              statement_by_query, awaiting, lastCall>>

workerVars == <<jobs, queue>>

engineVars == <<openHandles, liveStmts, inEngine>>

typeVars == <<values, call>>

vars == <<respVars, connVars, workerVars, engineVars, typeVars>>

-----------------------------------------------------------------------------
(* Option and Result                                                       *)

None == <<>>

Some(v) == <<v>>

IsSome(o) == Len(o) = 1

Unwrap(o) == o[1]

Ok(v) == [ok |-> TRUE, err |-> "", val |-> v]

Err(e, v) == [ok |-> FALSE, err |-> e, val |-> v]

-----------------------------------------------------------------------------
(* Bytes: the tags of the wire format and the texts used as field values   *)

b_S == 83
b_C == 67
b_M == 77
b_V == 86
b_D == 68

PANIC   == <<80, 65, 78, 73, 67>>
FATAL   == <<70, 65, 84, 65, 76>>
ERROR   == <<69, 82, 82, 79, 82>>
WARNING == <<87, 65, 82, 78, 73, 78, 71>>
NOTICE  == <<78, 79, 84, 73, 67, 69>>
DEBUG   == <<68, 69, 66, 85, 71>>
INFO    == <<73, 78, 70, 79>>
LOG     == <<76, 79, 71>>

\* texts that are no severity: a localized one, a lower-case one, a proper
\* prefix and a proper extension of a severity text, and the empty text
HINWEIS == <<72, 73, 78, 87, 69, 73, 83>>
notice  == <<110, 111, 116, 105, 99, 101>>
LO      == <<76, 79>>
LOGS    == <<76, 79, 71, 83>>
EMPTY   == <<>>

SeverityTexts == {PANIC, FATAL, ERROR, WARNING, NOTICE, DEBUG, INFO, LOG}

OtherTexts == {HINWEIS, notice, LO, LOGS, EMPTY}

-----------------------------------------------------------------------------
(* Severity (response.rs 5-45)                                             *)

Severity == {"Panic", "Fatal", "Error", "Warning", "Notice", "Debug", "Info", "Log"}

is_error(sev) == sev \in {"Panic", "Fatal", "Error"}

from_str_NoDefault(s) ==
    CASE s = PANIC   -> Ok("Panic")
      [] s = FATAL   -> Ok("Fatal")
      [] s = ERROR   -> Ok("Error")
      [] s = WARNING -> Ok("Warning")
      [] s = NOTICE  -> Ok("Notice")
      [] s = DEBUG   -> Ok("Debug")
      [] s = INFO    -> Ok("Info")
      [] OTHER       -> Ok("Log")

from_str(s) ==
    CASE s = PANIC   -> Ok("Panic")
      [] s = FATAL   -> Ok("Fatal")
      [] s = ERROR   -> Ok("Error")
      [] s = WARNING -> Ok("Warning")
      [] s = NOTICE  -> Ok("Notice")
      [] s = DEBUG   -> Ok("Debug")
      [] s = INFO    -> Ok("Info")
      [] s = LOG     -> Ok("Log")
      [] OTHER       -> Err("unexpected response severity", s)

-----------------------------------------------------------------------------
(* Buf (crate::io): reading from the front of a byte slice                 *)

\* get_u8: the first byte and the rest, or an error on an empty slice
get_u8(b) ==
    IF Len(b) >= 1 THEN Ok([byte |-> Head(b), rest |-> Tail(b)])
    ELSE Err("unexpected EOF", None)

\* the index of the first NUL of b, 0 when there is none
NulIndex(b) ==
    IF \E i \in 1..Len(b) : b[i] = 0
    THEN CHOOSE i \in 1..Len(b) : b[i] = 0 /\ \A j \in 1..(i - 1) : b[j] # 0
    ELSE 0

\* get_str_nul: the bytes before the first NUL and the rest after it, or an
\* error when the slice holds no NUL (every value of the model is ASCII, so
\* the bytes are always valid UTF-8)
get_str_nul(b) ==
    LET n == NulIndex(b) IN
    IF n = 0 THEN Err("unexpected EOF", None)
    ELSE Ok([str |-> SubSeq(b, 1, n - 1), rest |-> SubSeq(b, n + 1, Len(b))])

-----------------------------------------------------------------------------
(* Response (response.rs 47-135)                                           *)

MapInsert_KeepFirst(m, k, v) ==
    [x \in DOMAIN m \cup {k} |-> IF x \in DOMAIN m THEN m[x] ELSE v]

\* BTreeMap::insert: the entry of the key is set, replacing an earlier one
MapInsert(m, k, v) == [x \in DOMAIN m \cup {k} |-> IF x = k THEN v ELSE m[x]]

\* BTreeMap::get
MapGet(m, k) == IF k \in DOMAIN m THEN Some(m[k]) ELSE None

EmptyMap == [x \in {} |-> EMPTY]

ReadFinish_DefaultMessage(severity, code, message, other) ==
    IF ~IsSome(severity)
    THEN Err("did not receieve field severity for Response", None)
    ELSE IF ~IsSome(code)
    THEN Err("did not receieve field code for Response", None)
    ELSE Ok([severity |-> Unwrap(severity), code |-> Unwrap(code),
             message |-> IF IsSome(message) THEN Unwrap(message) ELSE EMPTY,
             fields |-> other])

\* lines 118-134: the three mandatory fields, checked in this order (the error
\* texts are the source's, without the backquotes around the field name)
ReadFinish(severity, code, message, other) ==
    IF ~IsSome(severity)
    THEN Err("did not receieve field severity for Response", None)
    ELSE IF ~IsSome(code)
    THEN Err("did not receieve field code for Response", None)
    ELSE IF ~IsSome(message)
    THEN Err("did not receieve field message for Response", None)
    ELSE Ok([severity |-> Unwrap(severity), code |-> Unwrap(code),
             message |-> Unwrap(message), fields |-> other])

RECURSIVE ReadLoop(_, _, _, _, _)
ReadLoop_EndOfInputEnds(b, severity, code, message, other) ==
    LET t == get_u8(b) IN
    IF ~t.ok \/ t.val.byte = 0 THEN ReadFinish(severity, code, message, other)
    ELSE
      LET field_type == t.val.byte
          v == get_str_nul(t.val.rest)
      IN
      IF ~v.ok THEN v
      ELSE
        LET field_value == v.val.str
            rest == v.val.rest
        IN
        CASE field_type = b_S -> ReadLoop(rest, Some(field_value), code, message, other)
          [] field_type = b_C -> ReadLoop(rest, severity, Some(field_value), message, other)
          [] field_type = b_M -> ReadLoop(rest, severity, code, Some(field_value), other)
          [] OTHER -> ReadLoop(rest, severity, code, message,
                               MapInsert(other, field_type, field_value))

\* lines 90-116: one iteration of the loop on what is left of the buffer
ReadLoop(b, severity, code, message, other) ==
    LET t == get_u8(b) IN
    IF ~t.ok THEN t
    ELSE IF t.val.byte = 0 THEN ReadFinish(severity, code, message, other)
    ELSE
      LET field_type == t.val.byte
          v == get_str_nul(t.val.rest)
      IN
      IF ~v.ok THEN v
      ELSE
        LET field_value == v.val.str
            rest == v.val.rest
        IN
        CASE field_type = b_S -> ReadLoop(rest, Some(field_value), code, message, other)
          [] field_type = b_C -> ReadLoop(rest, severity, Some(field_value), message, other)
          [] field_type = b_M -> ReadLoop(rest, severity, code, Some(field_value), other)
          [] OTHER -> ReadLoop(rest, severity, code, message,
                               MapInsert(other, field_type, field_value))

read_EagerSeverity(b) ==
    LET r == ReadLoop(b, None, None, None, EmptyMap) IN
    IF r.ok /\ ~from_str(r.val.severity).ok
    THEN Err("unexpected response severity", None)
    ELSE r

\* Response::read (lines 83-135)
read(b) == ReadLoop(b, None, None, None, EmptyMap)

severity_PrimaryFirst(r) == from_str(r.severity)

\* Response::severity (lines 62-67)
severity(r) ==
    LET v == MapGet(r.fields, b_V) IN
    from_str(IF IsSome(v) THEN Unwrap(v) ELSE r.severity)

\* Response::code, Response::message (lines 69-71)
code(r) == r.code

message(r) == r.message

\* Response::field (lines 73-81)
field(r, tag) ==
    CASE tag = b_S -> Some(r.severity)
      [] tag = b_C -> Some(r.code)
      [] tag = b_M -> Some(r.message)
      [] OTHER     -> MapGet(r.fields, tag)

-----------------------------------------------------------------------------
(* The inputs of the decoder                                               *)

MaxFields == 4
MaxCut == 2

\* the tags of the enumerated messages: the mandatory three and 'V', which read
\* stores in the sparse map like every tag that is not one of the three
Tags == {b_S, b_C, b_M, b_V}

\* the tags the accessors are asked for
QueryTags == Tags \cup {b_D}

SmallTexts == {ERROR, HINWEIS}

Field == [tag : Tags, value : SmallTexts]

RECURSIVE SeqsUpTo(_, _)
SeqsUpTo(S, n) ==
    IF n = 0 THEN {<<>>}
    ELSE LET shorter == SeqsUpTo(S, n - 1) IN
         shorter \cup {Append(s, x) : s \in {t \in shorter : Len(t) = n - 1}, x \in S}

F(t, v) == [tag |-> t, value |-> v]

\* every severity text, and every text that is none, as the value of 'S' and
\* of 'V', in a message that is otherwise minimal
SeverityMessages ==
    {<<F(b_S, s), F(b_C, ERROR), F(b_M, HINWEIS)>> : s \in SeverityTexts \cup OtherTexts}
    \cup {<<F(b_S, s), F(b_V, v), F(b_C, ERROR), F(b_M, HINWEIS)>> :
             s \in SeverityTexts \cup OtherTexts, v \in SeverityTexts \cup OtherTexts}

\* an optional tag that is not 'V', once and twice, around the mandatory fields
DetailMessages ==
    {<<F(b_D, x), F(b_S, ERROR), F(b_C, ERROR), F(b_M, HINWEIS)>> : x \in SmallTexts}
    \cup {<<F(b_D, x), F(b_S, ERROR), F(b_C, HINWEIS), F(b_M, ERROR), F(b_D, y)>> :
             x \in SmallTexts, y \in SmallTexts}

Messages == SeqsUpTo(Field, MaxFields) \cup SeverityMessages \cup DetailMessages

RECURSIVE EncodeFields(_)
\* the wire bytes of a list of fields: tag, value, NUL for each
EncodeFields(m) ==
    IF m = <<>> THEN <<>>
    ELSE <<Head(m).tag>> \o Head(m).value \o <<0>> \o EncodeFields(Tail(m))

\* a whole message: the fields and the zero tag byte ending them
Encode(m) == EncodeFields(m) \o <<0>>

\* the input without its last k bytes
Truncate(b, k) == SubSeq(b, 1, Len(b) - k)

-----------------------------------------------------------------------------
(* What a message holds, read off the list of fields it was encoded from   *)

TagsOf(m) == {m[i].tag : i \in 1..Len(m)}

LastValue(m, t) ==
    LET i == CHOOSE i \in 1..Len(m) :
                 m[i].tag = t /\ \A j \in (i + 1)..Len(m) : m[j].tag # t
    IN m[i].value

WellFormed == buf = Encode(msg)

Mandatory == {b_S, b_C, b_M}

-----------------------------------------------------------------------------
(* The decoder's state machine                                             *)

NoOut == [op |-> "none", tag |-> 0, res |-> None]

\* no call on a value type has been made
NoTypeCall == [op |-> "none"]

\* no connect call has been made
NoCall == [op |-> "none", res |-> None]

EmptyCache == [q \in {} |-> 0]

ConnIdle ==
    /\ pc = "start"
    /\ attempt = 0
    /\ outcome = None
    /\ handle = 0
    /\ statement = None
    /\ statements = <<>>
    /\ statement_by_query = EmptyCache
    /\ awaiting = 0
    /\ lastCall = NoCall
    /\ jobs = <<>>
    /\ queue = <<>>
    /\ openHandles = {}
    /\ liveStmts = {}
    /\ inEngine = {}
    /\ values = <<>>
    /\ call = NoTypeCall

InitResponse ==
    /\ ConnIdle
    /\ msg \in Messages
    /\ \E k \in 0..MaxCut : k <= Len(Encode(msg)) /\ buf = Truncate(Encode(msg), k)
    /\ response = None
    /\ out = NoOut

\* Response::read(buf)
Read ==
    /\ response = None
    /\ response' = Some(read(buf))
    /\ UNCHANGED <<msg, buf, out, connVars, workerVars, engineVars, typeVars>>

HasResponse == IsSome(response) /\ Unwrap(response).ok

TheResponse == Unwrap(response).val

\* response.severity()
CallSeverity ==
    /\ HasResponse
    /\ out' = [op |-> "severity", tag |-> 0, res |-> severity(TheResponse)]
    /\ UNCHANGED <<msg, buf, response, connVars, workerVars, engineVars, typeVars>>

\* response.field(tag)
CallField ==
    /\ HasResponse
    /\ \E t \in QueryTags :
         out' = [op |-> "field", tag |-> t, res |-> field(TheResponse, t)]
    /\ UNCHANGED <<msg, buf, response, connVars, workerVars, engineVars, typeVars>>

\* severity.is_error() on the Severity that severity() returned
CallIsError ==
    /\ out.op = "severity"
    /\ out.res.ok
    /\ out' = [op |-> "is_error", tag |-> 0,
               res |-> [sev |-> out.res.val, is_error |-> is_error(out.res.val)]]
    /\ UNCHANGED <<msg, buf, response, connVars, workerVars, engineVars, typeVars>>

NextResponse == Read \/ CallSeverity \/ CallField \/ CallIsError

SpecResponse == InitResponse /\ [][NextResponse]_vars

-----------------------------------------------------------------------------
(* Properties of the decoder                                               *)

\* the Severity each text of the enumeration names (PostgreSQL's severity
\* texts), as a table
NameOf(text) ==
    CASE text = PANIC   -> "Panic"
      [] text = FATAL   -> "Fatal"
      [] text = ERROR   -> "Error"
      [] text = WARNING -> "Warning"
      [] text = NOTICE  -> "Notice"
      [] text = DEBUG   -> "Debug"
      [] text = INFO    -> "Info"
      [] text = LOG     -> "Log"

\* the text that decides the severity of the message: the last 'V' value when
\* the message has a 'V' field, the last 'S' value otherwise
DecidingText ==
    IF b_V \in TagsOf(msg) THEN LastValue(msg, b_V) ELSE LastValue(msg, b_S)

MissingFieldErrors ==
    {"did not receieve field severity for Response",
     "did not receieve field code for Response",
     "did not receieve field message for Response"}

\* C1: on a well-formed message that holds 'S', 'C' and 'M', read succeeds and
\* field(t) is the value of the last occurrence of t, for every tag t of the
\* message, the three mandatory tags included; an accessor call returns it.
C1_FieldIsLastValue ==
    (WellFormed /\ Mandatory \subseteq TagsOf(msg) /\ IsSome(response)) =>
        /\ Unwrap(response).ok
        /\ \A t \in TagsOf(msg) : field(TheResponse, t) = Some(LastValue(msg, t))
        /\ (out.op = "field" /\ out.tag \in TagsOf(msg)) =>
               out.res = Some(LastValue(msg, out.tag))

\* a mandatory tag occurs twice with different values and field was asked for
\* it
C1_Witness ==
    /\ WellFormed /\ HasResponse
    /\ out.op = "field"
    /\ \E i, j \in 1..Len(msg) :
          /\ i < j
          /\ msg[i].tag = out.tag /\ msg[j].tag = out.tag
          /\ msg[i].value # msg[j].value
          /\ out.res = Some(msg[j].value)
    /\ out.tag \in Mandatory

\* C2: on a well-formed message that lacks 'S', 'C' or 'M', read returns a
\* protocol error that names a field the message does not have, and no
\* Response.
C2_MissingFieldIsError ==
    (WellFormed /\ ~(Mandatory \subseteq TagsOf(msg)) /\ IsSome(response)) =>
        LET r == Unwrap(response) IN
        /\ ~r.ok
        /\ r.err \in MissingFieldErrors
        /\ r.err = "did not receieve field severity for Response" => b_S \notin TagsOf(msg)
        /\ r.err = "did not receieve field code for Response" => b_C \notin TagsOf(msg)
        /\ r.err = "did not receieve field message for Response" => b_M \notin TagsOf(msg)

\* only 'M' is missing, other tags (a 'V' among them) are present
C2_Witness ==
    /\ WellFormed /\ IsSome(response)
    /\ TagsOf(msg) = {b_S, b_C, b_V}
    /\ ~Unwrap(response).ok
    /\ Unwrap(response).err = "did not receieve field message for Response"

\* C3: severity() is decided by the 'V' value when the message has one,
\* whatever 'S' holds, and by the 'S' value otherwise.
C3_SeverityPrefersV ==
    (WellFormed /\ out.op = "severity") =>
        /\ DecidingText \in SeverityTexts => out.res = Ok(NameOf(DecidingText))
        /\ DecidingText \notin SeverityTexts => ~out.res.ok

\* 'V' names a severity, 'S' holds a localized text that names none
C3_Witness ==
    /\ WellFormed /\ out.op = "severity"
    /\ b_V \in TagsOf(msg)
    /\ LastValue(msg, b_V) = NOTICE
    /\ LastValue(msg, b_S) = HINWEIS
    /\ out.res = Ok("Notice")

\* C4: severity() fails with a protocol error on every text outside the
\* enumeration and returns the matching Severity for every text in it;
\* is_error of a returned Severity is true exactly for Panic, Fatal, Error.
C4_SeverityEnumeration ==
    /\ (WellFormed /\ out.op = "severity") =>
          IF DecidingText \in SeverityTexts
          THEN out.res.ok /\ out.res.val = NameOf(DecidingText)
          ELSE ~out.res.ok /\ out.res.err = "unexpected response severity"
                           /\ out.res.val = DecidingText
    /\ out.op = "is_error" =>
          (out.res.is_error <=> out.res.sev \in {"Panic", "Fatal", "Error"})

\* an extension of a severity text was refused
C4_Witness ==
    /\ WellFormed /\ out.op = "severity"
    /\ DecidingText = LOGS
    /\ ~out.res.ok

-----------------------------------------------------------------------------
(* The SQLite engine, as far as connection.rs calls it                     *)

SQLITE_OK == 0
SQLITE_ERROR == 1
SQLITE_NOMEM == 7
SQLITE_CANTOPEN == 14

\* sqlite3_open_v2 (line 77, <https://www.sqlite.org/c3ref/open.html>): the
\* status it returns and whether it wrote a handle. A handle is returned even
\* when an error occurs, unless the engine could not allocate it; it stays
\* open until it is passed to sqlite3_close.
OpenOutcomes ==
    {[status |-> SQLITE_OK,       allocated |-> TRUE],
     [status |-> SQLITE_CANTOPEN, allocated |-> TRUE],
     [status |-> SQLITE_NOMEM,    allocated |-> FALSE]}

\* sqlite3_close (line 157, <https://sqlite.org/c3ref/close.html>): the handle
\* is closed when no prepared statement of it is unfinalized; otherwise the call
\* returns SQLITE_BUSY and leaves the handle open.
CloseCloses(live) == live = {}

\* the status of a statement that ran: success or an engine error
StepStatuses == {SQLITE_OK, SQLITE_ERROR}

-----------------------------------------------------------------------------
(* Bounds of the connection model                                          *)

MaxConnects == 2
MaxJobs == 5

Queries == {"q1", "q2"}

-----------------------------------------------------------------------------
(* Worker (sqlite/worker.rs): one dedicated context draining a queue       *)

Job(kind) ==
    [conn |-> attempt, kind |-> kind, state |-> "queued", future |-> "live",
     droppedIn |-> "", result |-> None, delivered |-> FALSE]

NextJobId == Len(jobs) + 1

Running == {j \in DOMAIN jobs : jobs[j].state = "running"}

WorkerIdle == queue = <<>> /\ Running = {}

\* Worker::run(job), with js the jobs so far: the job is queued and the caller
\* holds its future
RunAfter(js, kind) ==
    /\ jobs' = Append(js, Job(kind))
    /\ queue' = Append(queue, NextJobId)
    /\ awaiting' = NextJobId

Run(kind) == RunAfter(jobs, kind)

\* the future of job j yields the result: the one-shot channel is emptied
Taken(j) == [jobs EXCEPT ![j].result = None]

\* the job the Worker takes next
NextInQueue_Last == queue[Len(queue)]

NextInQueue == Head(queue)

Remove(q, j) == SelectSeq(q, LAMBDA x : x # j)

\* the closure of establish (lines 65-91) on the outcome o of sqlite3_open_v2
\* for handle h: the result it returns
OpenResult(o, h) ==
    IF o.status # SQLITE_OK THEN Err("sqlite", o.status) ELSE Ok(h)

\* ... and the handles open in the engine after it: the closure returns on a
\* non-zero status without passing the handle to sqlite3_close
OpenHandlesAfter(o, h) ==
    IF o.allocated THEN openHandles \cup {h} ELSE openHandles

\* a statement's execution: the result of its job
StepResult(status) ==
    IF status # SQLITE_OK THEN Err("sqlite", status) ELSE Ok(0)

\* the Worker's context takes the next job and invokes it
WorkerStart ==
    /\ queue # <<>>
    /\ Running = {}
    /\ LET j == NextInQueue IN
       /\ jobs' = [jobs EXCEPT ![j].state = "running"]
       /\ queue' = Remove(queue, j)
       /\ inEngine' = inEngine \cup {[ctx |-> "worker", handle |-> jobs[j].conn]}
    /\ UNCHANGED <<respVars, typeVars, connVars, openHandles, liveStmts>>

\* what the one-shot channel does with a result: it reaches the future when the
\* future still exists
Deliver(j) == jobs[j].future = "live"

Finish_FailureStopsWorker(j, r) ==
    /\ jobs' = [jobs EXCEPT ![j].state = "done",
                            ![j].result = IF Deliver(j) THEN Some(r) ELSE None,
                            ![j].delivered = Deliver(j)]
    /\ queue' = IF r.ok THEN queue ELSE <<>>
    /\ inEngine' = {c \in inEngine : c.ctx # "worker"}
    /\ UNCHANGED <<respVars, typeVars, connVars, liveStmts>>

\* the running job returns; its result is sent through its one-shot channel,
\* and is lost when the receiving side is gone
Finish(j, r) ==
    /\ jobs' = [jobs EXCEPT ![j].state = "done",
                            ![j].result = IF Deliver(j) THEN Some(r) ELSE None,
                            ![j].delivered = Deliver(j)]
    /\ inEngine' = {c \in inEngine : c.ctx # "worker"}
    /\ UNCHANGED <<respVars, typeVars, connVars, queue, liveStmts>>

\* the open job (lines 65-91) ends
WorkerFinishOpen ==
    \E j \in Running :
       /\ jobs[j].kind = "open"
       /\ \E o \in OpenOutcomes :
            /\ openHandles' = OpenHandlesAfter(o, jobs[j].conn)
            /\ Finish(j, OpenResult(o, jobs[j].conn))

\* a job that executes a statement ends
WorkerFinishStep ==
    \E j \in Running :
       /\ jobs[j].kind \in {"pragma", "exec"}
       /\ \E st \in StepStatuses : Finish(j, StepResult(st))
       /\ UNCHANGED openHandles

-----------------------------------------------------------------------------
(* SqliteConnection (sqlite/connection.rs)                                 *)

Range(f) == {f[x] : x \in DOMAIN f}

\* A statement is named by the slot that owns it: the one statement field, or
\* the query text a persistent statement is cached under.
NonPersistent == "statement"

\* Executor::execute up to the submission of its job: the statement is
\* prepared into the connection's cache. A non-persistent statement replaces
\* the one held in statement; a persistent one is looked up by its query text
\* and appended to statements when it is new.
Prepare(q, persistent) ==
    IF ~persistent
    THEN /\ statement' = Some(NonPersistent)
         /\ liveStmts' = (liveStmts \ Range(statement)) \cup {NonPersistent}
         /\ UNCHANGED <<statements, statement_by_query>>
    ELSE IF q \in DOMAIN statement_by_query
    THEN UNCHANGED <<statement, statements, statement_by_query, liveStmts>>
    ELSE /\ statements' = Append(statements, q)
         /\ statement_by_query' =
               [x \in DOMAIN statement_by_query \cup {q} |->
                   IF x = q THEN Len(statements) + 1 ELSE statement_by_query[x]]
         /\ liveStmts' = liveStmts \cup {q}
         /\ UNCHANGED statement

\* Drop for SqliteConnection, lines 149-157, up to the call of sqlite3_close:
\* the persistent statements are released, then the caller is in sqlite3_close
DropCallsClose ==
    /\ statements' = <<>>
    /\ liveStmts' = liveStmts \ Range(statements)
    /\ inEngine' = inEngine \cup {[ctx |-> "caller", handle |-> handle]}
    /\ pc' = "in_close"

Connect_OpensBeforeParsing ==
    /\ pc = "start"
    /\ attempt < MaxConnects
    /\ WorkerIdle
    /\ attempt' = attempt + 1
    /\ handle' = 0
    /\ jobs' = <<[Job("open") EXCEPT !.conn = attempt + 1]>>
    /\ queue' = <<1>>
    /\ \E urlOk \in BOOLEAN :
         IF urlOk
         THEN /\ awaiting' = 1
              /\ pc' = "opening"
              /\ outcome' = None
         ELSE /\ outcome' = Some(Err("url", 0))
              /\ pc' = "start"
              /\ UNCHANGED awaiting
    /\ UNCHANGED <<respVars, typeVars, statement, statements, statement_by_query, lastCall,
                   engineVars>>

\* connect, lines 115-118, and establish, lines 51-92, up to the first await:
\* a new Worker is made (line 52), the URL is parsed; a parse error is returned
\* at once (line 54), otherwise the open job is handed to the Worker. The model
\* holds one Worker at a time: a connect call that follows a failed one waits
\* until the Worker of the failed call has no job left.
Connect ==
    /\ pc = "start"
    /\ attempt < MaxConnects
    /\ WorkerIdle
    /\ attempt' = attempt + 1
    /\ handle' = 0
    /\ \E urlOk \in BOOLEAN :
         IF urlOk
         THEN /\ jobs' = <<[Job("open") EXCEPT !.conn = attempt + 1]>>
              /\ queue' = <<1>>
              /\ awaiting' = 1
              /\ pc' = "opening"
              /\ outcome' = None
         ELSE /\ outcome' = Some(Err("url", 0))
              /\ pc' = "start"
              /\ jobs' = <<>>
              /\ UNCHANGED <<queue, awaiting>>
    /\ UNCHANGED <<respVars, typeVars, statement, statements, statement_by_query, lastCall,
                   engineVars>>

\* the open job's result arrives (line 92). An error is returned by connect
\* (line 118); otherwise the SqliteConnection is built (lines 94-100) and
\* connect executes the pragmas on it (lines 123-129)
OpenDone ==
    /\ pc = "opening"
    /\ jobs[awaiting].state = "done"
    /\ LET r == Unwrap(jobs[awaiting].result) IN
       IF ~r.ok
       THEN /\ outcome' = Some(r)
            /\ pc' = "start"
            /\ awaiting' = 0
            /\ jobs' = Taken(awaiting)
            /\ UNCHANGED <<handle, statement, statements, statement_by_query,
                           queue, liveStmts>>
       ELSE /\ handle' = r.val
            /\ \E persistent \in BOOLEAN : Prepare("pragma", persistent)
            /\ RunAfter(Taken(awaiting), "pragma")
            /\ pc' = "pragma"
            /\ UNCHANGED outcome
    /\ UNCHANGED <<respVars, typeVars, attempt, lastCall, openHandles, inEngine>>

\* the pragma job's result arrives (line 129): connect returns the connection
\* (line 131), or the error, dropping the connection
PragmaDone ==
    /\ pc = "pragma"
    /\ jobs[awaiting].state = "done"
    /\ awaiting' = 0
    /\ LET r == Unwrap(jobs[awaiting].result) IN
       IF r.ok
       THEN /\ outcome' = Some(Ok(handle))
            /\ pc' = "ready"
            /\ UNCHANGED <<statements, engineVars>>
       ELSE /\ outcome' = Some(Err("pragma", r.val))
            /\ DropCallsClose
            /\ UNCHANGED openHandles
    /\ jobs' = Taken(awaiting)
    /\ UNCHANGED <<respVars, typeVars, attempt, handle, statement, statement_by_query,
                   lastCall, queue>>

\* the future of connect is dropped while it awaits a job
CancelConnect ==
    /\ pc \in {"opening", "pragma"}
    /\ jobs[awaiting].state # "done"
    /\ jobs' = [jobs EXCEPT ![awaiting].future = "dropped",
                            ![awaiting].droppedIn = jobs[awaiting].state]
    /\ awaiting' = 0
    /\ outcome' = Some(Err("cancelled", 0))
    /\ IF pc = "opening"
       THEN /\ pc' = "start"
            /\ UNCHANGED <<statements, engineVars>>
       ELSE /\ DropCallsClose
            /\ UNCHANGED openHandles
    /\ UNCHANGED <<respVars, typeVars, attempt, handle, statement, statement_by_query,
                   lastCall, queue>>

\* Executor::execute on a Ready connection, up to its await
Execute ==
    /\ pc = "ready"
    /\ Len(jobs) < MaxJobs
    /\ \E q \in Queries, persistent \in BOOLEAN : Prepare(q, persistent)
    /\ Run("exec")
    /\ pc' = "executing"
    /\ UNCHANGED <<respVars, typeVars, attempt, outcome, handle, lastCall, openHandles, inEngine>>

\* the result of the statement's job arrives
ExecuteDone ==
    /\ pc = "executing"
    /\ jobs[awaiting].state = "done"
    /\ lastCall' = [op |-> "execute", res |-> jobs[awaiting].result]
    /\ jobs' = Taken(awaiting)
    /\ awaiting' = 0
    /\ pc' = "ready"
    /\ UNCHANGED <<respVars, typeVars, attempt, outcome, handle, statement, statements,
                   statement_by_query, queue, engineVars>>

DropFuture_Cancels ==
    /\ pc = "executing"
    /\ jobs[awaiting].state # "done"
    /\ jobs' = [jobs EXCEPT ![awaiting].future = "dropped",
                            ![awaiting].droppedIn = jobs[awaiting].state,
                            ![awaiting].state = "cancelled"]
    /\ queue' = Remove(queue, awaiting)
    /\ inEngine' = IF jobs[awaiting].state = "running"
                   THEN {c \in inEngine : c.ctx # "worker"} ELSE inEngine
    /\ awaiting' = 0
    /\ pc' = "ready"
    /\ UNCHANGED <<respVars, typeVars, attempt, outcome, handle, statement, statements,
                   statement_by_query, lastCall, openHandles, liveStmts>>

\* the caller drops the future of a job (or a timeout around it does) before
\* the result has arrived: the job stays where it is, queued or running
DropFuture ==
    /\ pc = "executing"
    /\ jobs[awaiting].state # "done"
    /\ jobs' = [jobs EXCEPT ![awaiting].future = "dropped",
                            ![awaiting].droppedIn = jobs[awaiting].state]
    /\ awaiting' = 0
    /\ pc' = "ready"
    /\ UNCHANGED <<respVars, typeVars, attempt, outcome, handle, statement, statements,
                   statement_by_query, lastCall, queue, engineVars>>

\* Connection::ping (lines 142-145)
Ping ==
    /\ pc = "ready"
    /\ lastCall' = [op |-> "ping", res |-> Some(Ok(0))]
    /\ UNCHANGED <<respVars, typeVars, pc, attempt, outcome, handle, statement, statements,
                   statement_by_query, awaiting, workerVars, engineVars>>

\* Connection::close (lines 137-140): the ready future; self is dropped
Close ==
    /\ pc = "ready"
    /\ lastCall' = [op |-> "close", res |-> Some(Ok(0))]
    /\ DropCallsClose
    /\ UNCHANGED <<respVars, typeVars, attempt, outcome, handle, statement,
                   statement_by_query, awaiting, workerVars, openHandles>>

\* a Ready connection goes out of scope
DropConnection ==
    /\ pc = "ready"
    /\ DropCallsClose
    /\ UNCHANGED <<respVars, typeVars, attempt, outcome, handle, statement,
                   statement_by_query, awaiting, lastCall, workerVars, openHandles>>

\* the Worker's context is inside an engine call on the handle being closed
CloseRaces == [ctx |-> "worker", handle |-> handle] \in inEngine

\* sqlite3_close returns (line 157, its status is ignored), Drop::drop ends
\* and the fields are dropped in the order of their declaration (lines 26-32),
\* statement among them. A close that races with an engine call of the Worker
\* on the same handle has either outcome.
CloseReturns ==
    /\ pc = "in_close"
    /\ \E closes \in BOOLEAN :
         /\ closes = CloseCloses(liveStmts) \/ CloseRaces
         /\ openHandles' = IF closes THEN openHandles \ {handle} ELSE openHandles
    /\ inEngine' = {c \in inEngine : c.ctx # "caller"}
    /\ statement' = None
    /\ liveStmts' = liveStmts \ Range(statement)
    /\ statement_by_query' = EmptyCache
    /\ pc' = "closed"
    /\ UNCHANGED <<respVars, typeVars, attempt, outcome, handle, statements, awaiting,
                   lastCall, workerVars>>

Init ==
    /\ ConnIdle
    /\ msg = <<>>
    /\ buf = <<>>
    /\ response = None
    /\ out = NoOut

Next ==
    \/ Connect
    \/ OpenDone
    \/ PragmaDone
    \/ CancelConnect
    \/ Execute
    \/ ExecuteDone
    \/ DropFuture
    \/ Ping
    \/ Close
    \/ DropConnection
    \/ CloseReturns
    \/ WorkerStart
    \/ WorkerFinishOpen
    \/ WorkerFinishStep

Spec == Init /\ [][Next]_vars

\* the Worker's context is a thread of its own: it is scheduled whenever it has
\* a job to take or to finish
FairSpec == Spec /\ WF_vars(WorkerStart) /\ WF_vars(WorkerFinishOpen) /\ WF_vars(WorkerFinishStep)

-----------------------------------------------------------------------------
(* Properties of the connection and its Worker                             *)

Handles == 1..MaxConnects

\* the last connect call returned the error of its open job
OpenFailed == IsSome(outcome) /\ ~Unwrap(outcome).ok /\ Unwrap(outcome).err = "sqlite"

\* the last connect call returned the error of its pragmas
PragmaFailed == IsSome(outcome) /\ ~Unwrap(outcome).ok /\ Unwrap(outcome).err = "pragma"

\* C5: at most one execution context is inside an engine call on a handle.
C5_OneContextInEngine ==
    \A h \in Handles : Cardinality({c \in inEngine : c.handle = h}) <= 1

\* C6: when sqlite3_close is called, the connection holds no statement and no
\* statement of it is alive in the engine.
C6_NoStatementAtClose ==
    pc = "in_close" => (statement = None /\ statements = <<>> /\ liveStmts = {})

\* C7: of two jobs of one connection, the one submitted first has finished
\* before the other starts; at most one job executes at a time.
C7_WorkerFifo ==
    /\ Cardinality(Running) <= 1
    /\ \A i, j \in DOMAIN jobs :
          (i < j /\ jobs[i].conn = jobs[j].conn /\ jobs[j].state \in {"running", "done"})
              => jobs[i].state = "done"

\* a job whose future was dropped while it ran is done, the job submitted after
\* it runs, and a third job waits in the queue
C7_Witness ==
    \E i, j, k \in DOMAIN jobs :
       /\ i < j /\ j < k
       /\ jobs[i].state = "done" /\ jobs[i].droppedIn = "running"
       /\ jobs[j].state = "running"
       /\ jobs[k].state = "queued"

\* C8: a connect call whose open failed returns the engine's non-zero status
\* and no connection, and the handle of the call is not open; this holds after
\* every call, so failed opens leave no handle behind however many there are.
C8_FailedOpenLeavesNoHandle ==
    OpenFailed =>
        /\ Unwrap(outcome).val # SQLITE_OK
        /\ pc = "start" /\ handle = 0
        /\ attempt \notin openHandles

\* C9: a connection becomes Ready only when its open job and its pragma job
\* both returned success; when connect returned the error of its pragmas and
\* the connection it had built is dropped, the handle it had opened is closed.
C9_ReadyAfterPragmas ==
    /\ [][(pc' = "ready" /\ pc \notin {"ready", "executing"}) =>
             /\ pc = "pragma"
             /\ jobs[awaiting].kind = "pragma"
             /\ jobs[awaiting].state = "done"
             /\ Unwrap(jobs[awaiting].result).ok
             /\ \E i \in DOMAIN jobs : jobs[i].kind = "open" /\ jobs[i].state = "done"
             /\ handle' = attempt /\ attempt \in openHandles]_vars
    /\ []((PragmaFailed /\ pc = "closed") => attempt \notin openHandles)

\* C10: a job whose future was dropped is not cancelled: a running job stays
\* running until it is done and a queued one stays queued until it runs; the
\* result of a job whose future was dropped reaches nobody, the result of a job
\* whose future exists is delivered; and again and again every job submitted so
\* far is done, so that every job submitted is executed.
C10_DroppedFutureJobCompletes ==
    /\ [][\A j \in DOMAIN jobs :
             /\ jobs[j].state = "running" =>
                   (j \in DOMAIN jobs' /\ jobs'[j].state \in {"running", "done"})
             /\ jobs[j].state = "queued" =>
                   (j \in DOMAIN jobs' /\ jobs'[j].state \in {"queued", "running"})
             /\ (jobs[j].state = "done" /\ attempt' = attempt) =>
                   (j \in DOMAIN jobs' /\ jobs'[j].state = "done")]_vars
    /\ [](\A j \in DOMAIN jobs :
             /\ jobs[j].future = "dropped" => ~jobs[j].delivered
             /\ (jobs[j].state = "done" /\ jobs[j].future = "live") => jobs[j].delivered)
    /\ []<>(\A j \in DOMAIN jobs : jobs[j].state = "done")

\* a job whose future was dropped while it ran is done, undelivered, and a job
\* submitted after it to the same Worker is done and has delivered its result
C10_Witness ==
    \E i, j \in DOMAIN jobs :
       /\ i < j /\ jobs[i].conn = jobs[j].conn
       /\ jobs[i].droppedIn = "running" /\ jobs[i].state = "done" /\ ~jobs[i].delivered
       /\ jobs[j].state = "done" /\ jobs[j].delivered /\ jobs[j].future = "live"

\* a call on the connection returned the error of its job
CallFailed == lastCall.op = "execute" /\ ~Unwrap(lastCall.res).ok

\* C11: the step that ends a job, with success or with an error, changes that
\* job only: every other job and the queue stay as they are, and the result
\* goes to the future of the job that ended when that future exists; no queued
\* job ever leaves the queue unexecuted; a call that has returned carries the
\* result of its own job; and the Worker empties its queue again and again, so
\* the jobs behind a failed one and the ones submitted after it are executed.
C11_FailingJobIsolated ==
    /\ [][\A j \in DOMAIN jobs :
             (jobs[j].state = "running" /\ j \in DOMAIN jobs' /\ jobs'[j].state = "done") =>
                 /\ queue' = queue
                 /\ \A i \in DOMAIN jobs : i # j => (i \in DOMAIN jobs' /\ jobs'[i] = jobs[i])
                 /\ jobs[j].future = "live" =>
                        (IsSome(jobs'[j].result) /\ jobs'[j].delivered)]_vars
    /\ [](\A j \in DOMAIN jobs :
             jobs[j].state = "queued" => \E k \in 1..Len(queue) : queue[k] = j)
    /\ [](lastCall.op = "execute" => IsSome(lastCall.res))
    /\ []<>(queue = <<>> /\ Running = {})

\* a call returned the error of its job, and a job submitted after it is done
\* and holds its own result, a success
C11_Witness ==
    /\ CallFailed
    /\ pc = "executing"
    /\ jobs[awaiting].state = "done"
    /\ jobs[awaiting].result = Some(Ok(0))

-----------------------------------------------------------------------------
(* Further properties of the decoder                                       *)

\* C12: read does not interpret the severity text. A well-formed message with
\* 'S', 'C' and 'M' is read successfully whatever text its 'S' and 'V' hold,
\* field returns that text as it was sent, and a text outside the enumeration
\* fails only in severity().
C12_SeverityReadLazily ==
    (WellFormed /\ Mandatory \subseteq TagsOf(msg) /\ IsSome(response)) =>
        /\ Unwrap(response).ok
        /\ \A t \in {b_S, b_V} \cap TagsOf(msg) :
               /\ field(TheResponse, t) = Some(LastValue(msg, t))
               /\ (out.op = "field" /\ out.tag = t) => out.res = Some(LastValue(msg, t))
        /\ (out.op = "severity" /\ DecidingText \notin SeverityTexts) =>
               (~out.res.ok /\ out.res.err = "unexpected response severity")
        /\ (out.op = "severity" /\ DecidingText \in SeverityTexts) => out.res.ok

\* a message whose 'S' holds a localized text was read, field returns the text
\* and severity() has failed on it
C12_Witness ==
    /\ WellFormed /\ HasResponse
    /\ b_V \notin TagsOf(msg)
    /\ LastValue(msg, b_S) = HINWEIS
    /\ field(TheResponse, b_S) = Some(HINWEIS)
    /\ out.op = "severity" /\ ~out.res.ok

\* the input lacks its end: at least the zero tag byte that ends the message
Truncated == Len(buf) < Len(Encode(msg))

\* the fields of the message that the input holds whole
WholeFields ==
    CHOOSE n \in 0..Len(msg) :
       /\ Len(EncodeFields(SubSeq(msg, 1, n))) <= Len(buf)
       /\ \A k \in (n + 1)..Len(msg) : Len(EncodeFields(SubSeq(msg, 1, k))) > Len(buf)

\* C13: when the input ends before its zero tag byte, where a tag byte is
\* expected or inside a field value, read returns an error and no Response,
\* whatever fields it has read by then.
C13_TruncatedInputIsError ==
    (Truncated /\ IsSome(response)) =>
        (~Unwrap(response).ok /\ Unwrap(response).val = None)

\* the input ends where a tag byte is expected, after 'S', 'C' and 'M' were
\* all read, and read returned an error
C13_Witness ==
    /\ Truncated /\ IsSome(response)
    /\ WholeFields = Len(msg)
    /\ Mandatory \subseteq TagsOf(msg)
    /\ ~Unwrap(response).ok

-----------------------------------------------------------------------------
(* Further properties of the connection and its Worker                     *)

\* C14: every execution context inside an engine call on a connection's
\* handle is the Worker's; the caller's task is never inside one.
C14_EngineCallsOnWorker ==
    \A c \in inEngine : c.ctx = "worker"

\* C19: ping and close on a Ready connection return success at once and
\* submit no job to the Worker; and when close has returned and the connection
\* value is released, its statements are released and its handle is closed.
C19_CloseTearsDown ==
    /\ [][(lastCall' # lastCall /\ lastCall'.op \in {"ping", "close"}) =>
             /\ pc = "ready"
             /\ lastCall'.res = Some(Ok(0))
             /\ jobs' = jobs /\ queue' = queue]_vars
    /\ []((lastCall.op = "close" /\ pc = "closed") =>
             /\ statement = None /\ statements = <<>> /\ liveStmts = {}
             /\ handle \notin openHandles)

\* the last connect call returned the error of its URL
UrlFailed == IsSome(outcome) /\ ~Unwrap(outcome).ok /\ Unwrap(outcome).err = "url"

\* C20: a connect call whose URL does not parse returns the parse error
\* without an engine call: no job was given to the Worker, nothing is inside
\* the engine, no connection and no handle of the call exist; and what it
\* returns differs from every result of a failed open.
C20_UrlErrorBeforeEngine ==
    UrlFailed =>
        /\ pc = "start" /\ handle = 0
        /\ jobs = <<>> /\ queue = <<>>
        /\ inEngine = {}
        /\ attempt \notin openHandles
        /\ ~OpenFailed
        /\ \A o \in OpenOutcomes, h \in Handles : Unwrap(outcome) # OpenResult(o, h)

\* the second connect call failed on its URL, after a first one whose open
\* had failed and left its handle behind
C20_Witness ==
    /\ UrlFailed
    /\ attempt = 2
    /\ openHandles = {1}

-----------------------------------------------------------------------------
(* PgError (postgres/error.rs): the DatabaseError interface on a Response  *)

b_H == 72
b_t == 116
b_c == 99
b_n == 110

\* struct PgError (lines 8-11); no query is attached
PgError(r) == [response |-> r, query |-> None]

\* PgError::field (lines 45-47)
PgError_field(e, tag) == field(e.response, tag)

\* DatabaseError::message (lines 14-16)
PgError_message(e) == message(e.response)

\* DatabaseError::code (lines 18-20)
PgError_code(e) == Some(message(e.response))

\* DatabaseError::details (lines 22-24)
details(e) == PgError_field(e, b_D)

hint_ReturnsDetail(e) == PgError_field(e, b_D)

\* DatabaseError::hint (lines 26-28)
hint(e) == PgError_field(e, b_H)

\* DatabaseError::table_name (lines 30-32)
table_name(e) == PgError_field(e, b_t)

\* DatabaseError::column_name (lines 34-36)
column_name(e) == PgError_field(e, b_c)

\* DatabaseError::constraint_name (lines 38-40)
constraint_name(e) == PgError_field(e, b_n)

-----------------------------------------------------------------------------
(* The error messages a PgError is built from, and the calls on it         *)

MaxOptional == 2

ErrorTags == {b_D, b_H, b_t, b_c, b_n}

OptionalFields == SeqsUpTo([tag : ErrorTags, value : SmallTexts], MaxOptional)

\* the three mandatory fields with three different values
MandatoryFields == <<F(b_S, ERROR), F(b_C, LO), F(b_M, LOGS)>>

\* the optional fields after the mandatory ones, and before them
ErrorMessages ==
    {MandatoryFields \o o : o \in OptionalFields}
    \cup {o \o MandatoryFields : o \in OptionalFields}

InitError ==
    /\ ConnIdle
    /\ msg \in ErrorMessages
    /\ buf = Encode(msg)
    /\ response = None
    /\ out = NoOut

\* the PgError that holds the Response read
TheError == PgError(TheResponse)

\* a call of an accessor of the error interface and what it returned
Accessor(name, res) ==
    /\ HasResponse
    /\ out' = [op |-> name, tag |-> 0, res |-> res]
    /\ UNCHANGED <<msg, buf, response, connVars, workerVars, engineVars, typeVars>>

CallMessage == Accessor("message", PgError_message(TheError))

CallCode == Accessor("code", PgError_code(TheError))

CallDetails == Accessor("details", details(TheError))

CallHint == Accessor("hint", hint(TheError))

CallTableName == Accessor("table_name", table_name(TheError))

CallColumnName == Accessor("column_name", column_name(TheError))

CallConstraintName == Accessor("constraint_name", constraint_name(TheError))

NextError ==
    \/ Read
    \/ CallMessage
    \/ CallCode
    \/ CallDetails
    \/ CallHint
    \/ CallTableName
    \/ CallColumnName
    \/ CallConstraintName

SpecError == InitError /\ [][NextError]_vars

-----------------------------------------------------------------------------
(* Properties of PgError                                                   *)

\* the value the message holds for a tag: the last one sent, None when the
\* tag was not sent
Sent(t) == IF t \in TagsOf(msg) THEN Some(LastValue(msg, t)) ELSE None

\* the tag each accessor of the error interface stands for
TagOfAccessor(name) ==
    CASE name = "details"         -> b_D
      [] name = "hint"            -> b_H
      [] name = "table_name"      -> b_t
      [] name = "column_name"     -> b_c
      [] name = "constraint_name" -> b_n

OptionalAccessors == {"details", "hint", "table_name", "column_name", "constraint_name"}

\* C15: details, hint, table_name, column_name and constraint_name return the
\* value the message holds for 'D', 'H', 't', 'c' and 'n', None when the tag
\* was not sent, and message returns the value of 'M'.
C15_AccessorsForwardFields ==
    HasResponse =>
        /\ details(TheError) = Sent(b_D)
        /\ hint(TheError) = Sent(b_H)
        /\ table_name(TheError) = Sent(b_t)
        /\ column_name(TheError) = Sent(b_c)
        /\ constraint_name(TheError) = Sent(b_n)
        /\ PgError_message(TheError) = LastValue(msg, b_M)
        /\ out.op \in OptionalAccessors => out.res = Sent(TagOfAccessor(out.op))
        /\ out.op = "message" => out.res = LastValue(msg, b_M)

\* hint was called on an error whose message holds 'H' and 'D' with different
\* values and no 't', and returned the value of 'H'
C15_Witness ==
    /\ HasResponse
    /\ out.op = "hint"
    /\ {b_H, b_D} \subseteq TagsOf(msg)
    /\ LastValue(msg, b_H) # LastValue(msg, b_D)
    /\ out.res = Some(LastValue(msg, b_H))
    /\ table_name(TheError) = None

-----------------------------------------------------------------------------
(* PgTypeInfo (postgres/types/mod.rs 99-172)                               *)

\* TypeId: the identifiers the model draws from, each a different oid
TypeIds == {"BOOL", "INT4", "CIDR", "INET", "ARRAY_CIDR", "ARRAY_INET"}

\* PgTypeInfo::new gives the type a name, PgTypeInfo::with_oid none
TypeNames == {None, Some("name")}

PgTypeInfo == [id : TypeIds, name : TypeNames]

compatible_OneWay(self, other) ==
    CASE self.id = "CIDR" /\ other.id = "INET" -> TRUE
      [] self.id = "ARRAY_CIDR" /\ other.id = "ARRAY_INET" -> TRUE
      [] OTHER -> self.id = other.id

\* TypeInfo::compatible (lines 159-171)
compatible(self, other) ==
    CASE self.id = "CIDR" /\ other.id = "INET" -> TRUE
      [] self.id = "INET" /\ other.id = "CIDR" -> TRUE
      [] self.id = "ARRAY_CIDR" /\ other.id = "ARRAY_INET" -> TRUE
      [] self.id = "ARRAY_INET" /\ other.id = "ARRAY_CIDR" -> TRUE
      [] OTHER -> self.id = other.id

\* a.compatible(&b)
CallCompatible ==
    /\ \E a, b \in PgTypeInfo :
         call' = [op |-> "compatible", a |-> a, b |-> b, ret |-> compatible(a, b)]
    /\ UNCHANGED <<respVars, connVars, workerVars, engineVars, values>>

-----------------------------------------------------------------------------
(* Decode for Option<T> (postgres/types/mod.rs 174-183)                    *)

\* PgValue: the raw values a column can hold
RawValues == {"raw1", "raw2"}

\* what T's decode returns on a raw value: a value of T or an error
TResults == {Ok(0), Ok(1), Err("decode", 0)}

\* the type parameter T: every way its decode can treat the raw values
Decoders == [RawValues -> TResults]

\* <T as Decode<Postgres>>::decode with d the behaviour of T on a raw value; a
\* T that is no Option fails on the null marker
T_decode(d, value) ==
    IF IsSome(value) THEN d[Unwrap(value)] ELSE Err("unexpected null", 0)

\* Option::map: the closure, a function f of the model, is applied to the
\* value of a Some and to nothing else
OptionMap(o, f) == IF IsSome(o) THEN Some(f[Unwrap(o)]) ELSE None

\* the arguments Option::map calls its closure with, in order
OptionMapCalls(o) == IF IsSome(o) THEN <<Unwrap(o)>> ELSE <<>>

\* Option<Result<T, E>>::transpose
Transpose(o) ==
    IF ~IsSome(o) THEN Ok(None)
    ELSE IF Unwrap(o).ok THEN Ok(Some(Unwrap(o).val))
    ELSE Unwrap(o)

Option_decode_Delegates(d, value) ==
    LET r == T_decode(d, value) IN
    IF r.ok THEN Ok(Some(r.val)) ELSE r

\* <Option<T> as Decode<Postgres>>::decode (lines 178-182)
Option_decode(d, value) ==
    LET closure == [v \in RawValues |-> T_decode(d, Some(v))] IN
    Transpose(OptionMap(value, closure))

\* Option::<T>::decode(value); t_calls are the raw values T's decode was
\* called with
CallOptionDecode ==
    /\ \E d \in Decoders, value \in {None} \cup {Some(v) : v \in RawValues} :
         call' = [op |-> "decode_option", d |-> d, value |-> value,
                  ret |-> Option_decode(d, value),
                  t_calls |-> OptionMapCalls(value)]
    /\ UNCHANGED <<respVars, connVars, workerVars, engineVars, values>>

-----------------------------------------------------------------------------
(* Encode and Decode of bool and f64 on Sqlite (sqlite/types)              *)

MaxValues == 3

\* SqliteArgumentValue
ArgInt(n) == [kind |-> "Int", v |-> n]

ArgDouble(x) == [kind |-> "Double", v |-> x]

\* the f64 values of the model, as tenths: 0.5 and 2.0
Doubles == {5, 20}

\* From<bool> for the integer of SqliteArgumentValue::Int
bool_into(b) == IF b THEN 1 ELSE 0

bool_encode_Overwrites(b, vals) == <<ArgInt(bool_into(b))>>

\* <bool as Encode<Sqlite>>::encode (bool.rs 14-16)
bool_encode(b, vals) == Append(vals, ArgInt(bool_into(b)))

\* <f64 as Encode<Sqlite>>::encode (float.rs 32-34)
f64_encode(x, vals) == Append(vals, ArgDouble(x))

\* SqliteResultValue: the value of a column that holds what was bound from an
\* argument value
ResultOf(arg) == arg

\* SqliteResultValue::int: the integer of the column, a REAL truncated to it
int(value) == IF value.kind = "Int" THEN value.v ELSE value.v \div 10

\* <bool as Decode<Sqlite>>::decode (bool.rs 20-22)
bool_decode(value) == Ok(int(value) # 0)

\* b.encode(&mut values)
EncodeBool ==
    /\ Len(values) < MaxValues
    /\ \E b \in BOOLEAN :
         /\ values' = bool_encode(b, values)
         /\ call' = [op |-> "encode_bool", arg |-> b, before |-> values]
    /\ UNCHANGED <<respVars, connVars, workerVars, engineVars>>

\* x.encode(&mut values) for an f64
EncodeF64 ==
    /\ Len(values) < MaxValues
    /\ \E x \in Doubles :
         /\ values' = f64_encode(x, values)
         /\ call' = [op |-> "encode_f64", arg |-> x, before |-> values]
    /\ UNCHANGED <<respVars, connVars, workerVars, engineVars>>

\* bool::decode on the column that holds the i-th argument
DecodeBool ==
    /\ \E i \in DOMAIN values :
         call' = [op |-> "decode_bool", arg |-> values[i],
                  ret |-> bool_decode(ResultOf(values[i]))]
    /\ UNCHANGED <<respVars, connVars, workerVars, engineVars, values>>

InitTypes ==
    /\ ConnIdle
    /\ msg = <<>>
    /\ buf = <<>>
    /\ response = None
    /\ out = NoOut

NextTypes ==
    \/ CallCompatible
    \/ CallOptionDecode
    \/ EncodeBool
    \/ EncodeF64
    \/ DecodeBool

SpecTypes == InitTypes /\ [][NextTypes]_vars

-----------------------------------------------------------------------------
(* Properties of the value types                                           *)

\* C16: compatible(a, b) is true exactly when a and b have the same
\* identifier, or are INET and CIDR, or are the arrays of INET and of CIDR; it
\* is symmetric; a scalar INET or CIDR is not compatible with an array form.
C16_CompatibleRelation ==
    /\ \A a, b \in PgTypeInfo :
          /\ compatible(a, b) <=>
                \/ a.id = b.id
                \/ {a.id, b.id} = {"INET", "CIDR"}
                \/ {a.id, b.id} = {"ARRAY_INET", "ARRAY_CIDR"}
          /\ compatible(a, b) = compatible(b, a)
          /\ (a.id \in {"INET", "CIDR"} /\ b.id \in {"ARRAY_INET", "ARRAY_CIDR"})
                => ~compatible(a, b)
    /\ call.op = "compatible" =>
          (call.ret <=> \/ call.a.id = call.b.id
                        \/ {call.a.id, call.b.id} = {"INET", "CIDR"}
                        \/ {call.a.id, call.b.id} = {"ARRAY_INET", "ARRAY_CIDR"})

\* INET was found compatible with CIDR, in this order
C16_Witness ==
    /\ call.op = "compatible"
    /\ call.a.id = "INET" /\ call.b.id = "CIDR"
    /\ call.ret

\* C17: Option<T>'s decode returns None on the null marker without calling
\* T's decode; on a raw value it calls T's decode once with that value and
\* returns Some of its value, or its error as it is.
C17_OptionDecode ==
    call.op = "decode_option" =>
        IF call.value = None
        THEN call.ret = Ok(None) /\ call.t_calls = <<>>
        ELSE LET t == call.d[Unwrap(call.value)] IN
             /\ call.t_calls = <<Unwrap(call.value)>>
             /\ t.ok => call.ret = Ok(Some(t.val))
             /\ ~t.ok => call.ret = t

\* a raw value on which T's decode fails was decoded: T's error came back
C17_Witness ==
    /\ call.op = "decode_option"
    /\ IsSome(call.value)
    /\ ~call.d[Unwrap(call.value)].ok
    /\ call.ret = Err("decode", 0)

\* C18: encode of a bool appends one Int to the buffer and leaves the values
\* before it as they were, and decode of the column holding that Int is the
\* bool again; decode of an encoded bool is the bool.
C18_BoolRoundTrip ==
    /\ call.op = "encode_bool" =>
          /\ Len(values) = Len(call.before) + 1
          /\ SubSeq(values, 1, Len(call.before)) = call.before
          /\ values[Len(values)].kind = "Int"
          /\ bool_decode(ResultOf(values[Len(values)])) = Ok(call.arg)
    /\ \A b \in BOOLEAN :
          (call.op = "decode_bool" /\ call.arg = ArgInt(bool_into(b))) => call.ret = Ok(b)

\* true was encoded after two other values and decoded again
C18_Witness ==
    /\ call.op = "decode_bool"
    /\ Len(values) = 3
    /\ values[1].kind = "Double"
    /\ values[3] = ArgInt(1)
    /\ call.arg = values[3]
    /\ call.ret = Ok(TRUE)

-----------------------------------------------------------------------------
(* Further properties of PgError                                           *)

\* C21: code() of the error interface returns the SQLSTATE code of the
\* Response, the value of tag 'C': the text Response::code() and field(b'C')
\* return, and the value the message holds for 'C'.
C21_CodeIsSqlState ==
    HasResponse =>
        /\ PgError_code(TheError) = Some(code(TheResponse))
        /\ PgError_code(TheError) = field(TheResponse, b_C)
        /\ out.op = "code" => out.res = Some(LastValue(msg, b_C))

-----------------------------------------------------------------------------
(* The life of the handle of a connection whose open succeeded             *)

\* C22: the handle of a connection is closed exactly once. sqlite3_close is
\* called on it only while it is open, from a connection that awaits its
\* pragmas or is Ready; when the connection is Closed its handle is not open;
\* and Closed is terminal: the connection stays Closed and no engine call
\* comes to its handle afterwards.
C22_HandleClosedOnce ==
    /\ [][(pc # "in_close" /\ pc' = "in_close") =>
             (pc \in {"pragma", "ready"} /\ handle # 0 /\ handle \in openHandles)]_vars
    /\ [](pc = "closed" => handle \notin openHandles)
    /\ [][pc = "closed" =>
             /\ pc' = "closed" /\ handle' = handle
             /\ openHandles' = openHandles
             /\ \A c \in inEngine' : c.handle = handle => c \in inEngine]_vars

=============================================================================
